---- MODULE Spec2Model ----
(***************************************************************************)
(* Realtime-Digit-Classifier: a model of the MNIST dataset loader          *)
(* (SvmTrainer.cpp), of the per-frame segmentation and two-stage           *)
(* classification (RealtimeDigitClassifier.cpp ProcessFrame), of the       *)
(* real-time main loop (RealtimeDigitClassifier.cpp main) and of the SVM   *)
(* wrapper (Svm.cpp, HogSvm.cpp).                                          *)
(*                                                                         *)
(* The specifications share the variables; each one moves only its own     *)
(* group and leaves the others at their idle values:                       *)
(*   SpecLoader  ReadMnistImageFile / LoadMnistLabelFile on a byte file    *)
(*   SpecFrame   ProcessFrame on a synthetic frame                         *)
(*   SpecMain    main() of the real-time program                           *)
(*   SpecSvm     one Svm/HogSvm instance and the model files on disk       *)
(*   SpecTest    one call of Svm::Test                                     *)
(*   SpecTrainer main() of the trainer (SvmTrainer.cpp)                    *)
(***************************************************************************)
EXTENDS Integers, Sequences, FiniteSets, TLC

VARIABLES
    \* ---- dataset loader (SvmTrainer.cpp) ----
    imageFile,      \* the image file on disk: [exists, bytes]
    labelFile,      \* the label file on disk: [exists, bytes]
    images,         \* std::vector<Mat> images: sequence of pixel matrices
    labels,         \* Mat labels: sequence of label bytes
    imagesOk,       \* what ReadMnistImageFile returned: "true", "false"; "none" before
    labelsOk,       \* what LoadMnistLabelFile returned: "true", "false"; "none" before
    \* ---- ProcessFrame (RealtimeDigitClassifier.cpp) ----
    scene,          \* the synthetic input: blobs, intensities, models, library build
    frame,          \* the Mat being processed (grey levels, then binary)
    fpc,            \* position in ProcessFrame: "threshold", "flood", "close",
                    \* "contours", "loop", "done", "thrown"
    contours,       \* bounding rectangles of the contours found, in ROI coordinates
    ci,             \* the loop index i of ProcessFrame
    regions,        \* per loop iteration: bounding box, padded buffer, detector value
    detections,     \* annotations drawn on displayFrame: bounding box and digit
    classifierCalls,\* number of classifier.Predict calls made so far
    displayShares,  \* whether displayFrame and frame refer to one pixel buffer
    \* ---- real-time main (RealtimeDigitClassifier.cpp) ----
    pc,             \* position in main
    disk,           \* what the two model files on disk hold
    classifier,     \* m_svm of the classifier instance
    detector,       \* m_svm of the detector instance
    captureOpened,  \* whether VideoCapture(0) has been constructed
    exitStatus,     \* "running", "0", "1", or "killed" (abort or access violation)
    exitReason,     \* why main ended
    captured,       \* vidCapture >> frame executions so far (empty frames included)
    emptyFrames,    \* how many of them produced an empty frame
    processCalls,   \* ProcessFrame invocations so far
    \* ---- one Svm instance (Svm.cpp) ----
    m_svm,          \* the cv::Ptr<cv::ml::SVM> member
    fs,             \* the file system: file name -> content
    lastOp,         \* the last operation performed, its argument and its outcome
    installed,      \* TRUE once a Train or a Load of this instance has returned true
    params,         \* the hyperparameters held by the SVM object m_svm points to
    kernel,         \* the copy of the hyperparameters inside the SVM's kernel object
    sv,             \* the training set the support vectors were fitted on, or "none"
    stored,         \* file name -> the model a valid file holds
    saved,          \* the file and the model of the latest Save that returned true
    \* ---- one call of Svm::Test (Svm.cpp) ----
    testModel,      \* the trained model: sample -> class predicted
    svmFeatures,   \* the rows of the features matrix
    svmLabels,     \* the rows of the labels matrix
    percentError,     \* what Test returned
    \* ---- the trainer's main (SvmTrainer.cpp) ----
    tpc,            \* position in main
    mnist,          \* the four MNIST files: name -> "missing", "valid" or "short"
    nonDigits,      \* index of the first unreadable non-digit image per set, -1 if none
    trainImages,    \* std::vector<Mat> trainImages: [count, empty Mats among them]
    trainLabels,    \* Mat trainLabels: runs [v, n] of n equal labels v
    testImages,     \* std::vector<Mat> testImages
    testLabels,    \* Mat svmLabels
    entry,          \* the four containers on entry to CreateDigitDetectorData
    created,        \* what CreateDigitDetectorData returned; "none" before
    written,        \* the model files written so far
    failed          \* the steps of the run that have failed

loaderVars == <<imageFile, labelFile, images, labels, imagesOk, labelsOk>>
frameVars  == <<scene, frame, fpc, contours, ci, regions, detections, classifierCalls,
                displayShares>>
mainVars   == <<pc, disk, classifier, detector, captureOpened, exitStatus, exitReason,
                captured, emptyFrames, processCalls>>
svmVars    == <<m_svm, fs, lastOp, installed, params, kernel, sv, stored, saved>>
testVars   == <<testModel, svmFeatures, svmLabels, percentError>>
trainerVars == <<tpc, mnist, nonDigits, trainImages, trainLabels, testImages,
                 testLabels, entry, created, written, failed>>
extVars    == <<testVars, trainerVars>>
vars       == <<loaderVars, frameVars, mainVars, svmVars, extVars>>

-----------------------------------------------------------------------------
(* Idle values of each group, used by the specifications that do not move it *)

LoaderIdle ==
    /\ imageFile = [exists |-> FALSE, bytes |-> <<>>]
    /\ labelFile = [exists |-> FALSE, bytes |-> <<>>]
    /\ images = <<>>
    /\ labels = <<>>
    /\ imagesOk = "idle"
    /\ labelsOk = "idle"

FrameIdle ==
    /\ scene = <<>>
    /\ frame = <<>>
    /\ fpc = "idle"
    /\ contours = <<>>
    /\ ci = 0
    /\ regions = <<>>
    /\ detections = <<>>
    /\ classifierCalls = 0
    /\ displayShares = FALSE

MainIdle ==
    /\ pc = "idle"
    /\ disk = [classifier |-> "idle", detector |-> "idle"]
    /\ classifier = "idle"
    /\ detector = "idle"
    /\ captureOpened = FALSE
    /\ exitStatus = "idle"
    /\ exitReason = "idle"
    /\ captured = 0
    /\ emptyFrames = 0
    /\ processCalls = 0

SvmIdle ==
    /\ m_svm = "idle"
    /\ fs = <<>>
    /\ lastOp = [op |-> "idle", arg |-> "idle", result |-> "idle"]
    /\ installed = FALSE
    /\ params = <<>>
    /\ kernel = <<>>
    /\ sv = "idle"
    /\ stored = <<>>
    /\ saved = <<>>

TestIdle ==
    /\ testModel = <<>>
    /\ svmFeatures = <<>>
    /\ svmLabels = <<>>
    /\ percentError = [kind |-> "idle", num |-> 0, den |-> 1]

TrainerIdle ==
    /\ tpc = "idle"
    /\ mnist = <<>>
    /\ nonDigits = <<>>
    /\ trainImages = [count |-> 0, empty |-> 0]
    /\ trainLabels = <<>>
    /\ testImages = [count |-> 0, empty |-> 0]
    /\ testLabels = <<>>
    /\ entry = <<>>
    /\ created = "idle"
    /\ written = {}
    /\ failed = {}

ExtIdle == TestIdle /\ TrainerIdle

-----------------------------------------------------------------------------
(*                       DATASET LOADER (SvmTrainer.cpp)                    *)

\* Bounds of the loader's inputs
MaxItems == 2
MaxDim == 2
MaxData == 5
MaxLabels == 3

\* threshold(image, image, 90, 255, THRESH_BINARY)
BinThresh == 90
BinMax == 255
\* The magic numbers of the MNIST files (read, never compared)
ImageMagic == 2051
LabelMagic == 2049

Min(a, b) == IF a < b THEN a ELSE b
Max(a, b) == IF a > b THEN a ELSE b

\* A 32-bit value as four bytes, most significant first (the file layout)
Be32(v) == << (v \div 16777216) % 256, (v \div 65536) % 256, (v \div 256) % 256, v % 256 >>

\* file.get(ch) at stream offset off: the byte there, or ch left as it was once
\* the stream is at its end (prev is the value ch has then)
GetCh(bytes, off, prev) == IF off + 1 <= Len(bytes) THEN bytes[off + 1] ELSE prev

\* ReadInt: four get(ch) calls, i = 3..0, value |= (ch & 0xFF) << (8*i).
\* ch starts at 0 and keeps the last byte read when a get fails.
\* (The files of this model keep the first byte of every field below 128, so
\* the unsigned 32-bit value is below 2^31 and no bit is lost.)
ReadInt(bytes, pos) ==
    LET c1 == GetCh(bytes, pos, 0)
        c2 == GetCh(bytes, pos + 1, c1)
        c3 == GetCh(bytes, pos + 2, c2)
        c4 == GetCh(bytes, pos + 3, c3)
    IN  c1 * 16777216 + c2 * 65536 + c3 * 256 + c4

\* The stream position after reading n bytes from pos: it stops at the end
Advance(bytes, pos, n) == Min(pos + n, Len(bytes))

ThresholdBinaryInclusive(p, thresh, maxval) == IF p >= thresh THEN maxval ELSE 0

\* cv::threshold(..., thresh, maxval, THRESH_BINARY) on one pixel:
\* dst = maxval if src > thresh, 0 otherwise
ThresholdBinary(p, thresh, maxval) == IF p > thresh THEN maxval ELSE 0

\* file.read(buffer, n) at pos into a freshly allocated (uninitialised) buffer:
\* the bytes the file still holds, then whatever the buffer held (garbage)
ReadBuffer(bytes, pos, n, garbage) ==
    [k \in 1..n |-> IF pos + k <= Len(bytes) THEN bytes[pos + k] ELSE garbage]

MatFromBufferColumnMajor(rows, cols, buf) ==
    [r \in 1..rows |-> [c \in 1..cols |-> buf[(c - 1) * rows + r]]]

\* Mat image(numRows, numColumns, CV_8UC1) over a continuous row-major buffer
MatFromBuffer(rows, cols, buf) ==
    [r \in 1..rows |-> [c \in 1..cols |-> buf[(r - 1) * cols + c]]]

\* threshold(image, image, 90, 255, THRESH_BINARY) on a whole matrix
BinarizeMat(m) ==
    [r \in DOMAIN m |-> [c \in DOMAIN m[r] |-> ThresholdBinary(m[r][c], BinThresh, BinMax)]]

\* The loop of ReadMnistImageFile from item i on: each turn reads imageSize
\* bytes, thresholds the image and pushes it.
RECURSIVE ReadImages(_, _, _, _, _, _, _, _)
ReadImages(bytes, pos, i, numItems, numRows, numColumns, garbage, acc) ==
    IF i >= numItems THEN acc
    ELSE LET imageSize == numRows * numColumns
             image == MatFromBuffer(numRows, numColumns,
                                    ReadBuffer(bytes, pos, imageSize, garbage))
         IN  ReadImages(bytes, Advance(bytes, pos, imageSize), i + 1, numItems,
                        numRows, numColumns, garbage, Append(acc, BinarizeMat(image)))

\* ReadMnistImageFile(filename, images): [ok, images]
ReadMnistImageFileResult(file, imgs, garbage) ==
    IF ~file.exists THEN [ok |-> "false", images |-> imgs]
    ELSE LET b == file.bytes
             magicNumber == ReadInt(b, 0)
             numItems    == ReadInt(b, Advance(b, 0, 4))
             numRows     == ReadInt(b, Advance(b, 0, 8))
             numColumns  == ReadInt(b, Advance(b, 0, 12))
         IN  [ok |-> "true",
              images |-> ReadImages(b, Advance(b, 0, 16), 0, numItems, numRows,
                                    numColumns, garbage, imgs)]

\* LoadMnistLabelFile(filename, labels): [ok, labels]; labels.create(numItems, 1)
\* allocates, each row is then read as one byte
LoadMnistLabelFileResult(file, labs, garbage) ==
    IF ~file.exists THEN [ok |-> "false", labels |-> labs]
    ELSE LET b == file.bytes
             magicNumber == ReadInt(b, 0)
             numItems    == ReadInt(b, Advance(b, 0, 4))
         IN  [ok |-> "true",
              labels |-> ReadBuffer(b, Advance(b, 0, 8), numItems, garbage)]

\* ---- the files the loader is run on ----
PixelVals == {10, 90, 91}
LabelVals == {0, 7}
\* what an uninitialised byte of a fresh Mat may hold
GarbageVals == {0, 255}

SeqsUpTo(S, n) == UNION {[1..k -> S] : k \in 0..n}

ImageHeader(n, r, c) == Be32(ImageMagic) \o Be32(n) \o Be32(r) \o Be32(c)
LabelHeader(n) == Be32(LabelMagic) \o Be32(n)

\* The image file of the documented scenario: N=3, R=2, C=2
ScenarioBytes == ImageHeader(3, 2, 2) \o <<100, 10, 10, 100, 95, 95, 0, 0, 5, 5, 5, 5>>

\* Image files: every header with small N, R, C followed by any short run of
\* data bytes (too short, exact, or too long), headers cut short, the scenario
ImageFileBytes ==
    {ImageHeader(n, r, c) \o d :
        n \in 0..MaxItems, r \in 1..MaxDim, c \in 1..MaxDim, d \in SeqsUpTo(PixelVals, MaxData)}
    \cup {SubSeq(ImageHeader(0, 1, 1), 1, k) : k \in 0..15}
    \cup {ScenarioBytes}

LabelFileBytes ==
    {LabelHeader(n) \o d : n \in 0..MaxItems, d \in SeqsUpTo(LabelVals, MaxLabels)}
    \cup {SubSeq(LabelHeader(0), 1, k) : k \in 0..7}

Missing == [exists |-> FALSE, bytes |-> <<>>]
OnDisk(b) == [exists |-> TRUE, bytes |-> b]

\* images already in the vector when the loader is called
InitialImages == {<<>>, << <<<<255>>>> >>}

InitLoader ==
    /\ \/ /\ imageFile \in {OnDisk(b) : b \in ImageFileBytes} \cup {Missing}
          /\ labelFile = Missing
       \/ /\ imageFile = Missing
          /\ labelFile \in {OnDisk(b) : b \in LabelFileBytes}
    /\ images \in InitialImages
    /\ labels = <<>>
    /\ imagesOk = "none"
    /\ labelsOk = "none"
    /\ FrameIdle /\ MainIdle /\ SvmIdle /\ ExtIdle

\* bool ReadMnistImageFile(const char *filename, std::vector<Mat> &images)
ReadMnistImageFile ==
    /\ imagesOk = "none"
    /\ \E garbage \in GarbageVals :
          LET res == ReadMnistImageFileResult(imageFile, images, garbage)
          IN  /\ images' = res.images
              /\ imagesOk' = res.ok
    /\ UNCHANGED <<imageFile, labelFile, labels, labelsOk>>
    /\ UNCHANGED <<frameVars, mainVars, svmVars, extVars>>

\* bool LoadMnistLabelFile(const char *filename, Mat &labels)
LoadMnistLabelFile ==
    /\ labelsOk = "none"
    /\ \E garbage \in GarbageVals :
          LET res == LoadMnistLabelFileResult(labelFile, labels, garbage)
          IN  /\ labels' = res.labels
              /\ labelsOk' = res.ok
    /\ UNCHANGED <<imageFile, labelFile, images, imagesOk>>
    /\ UNCHANGED <<frameVars, mainVars, svmVars, extVars>>

NextLoader == ReadMnistImageFile \/ LoadMnistLabelFile

SpecLoader == InitLoader /\ [][NextLoader]_vars

-----------------------------------------------------------------------------
(*                      Claims about the dataset loader                     *)

\* Header field k (0 = magic, 1 = N, 2 = R, 3 = C) of a file that holds it whole:
\* four bytes, most significant first
HeaderField(b, k) ==
    b[4 * k + 1] * 16777216 + b[4 * k + 2] * 65536 + b[4 * k + 3] * 256 + b[4 * k + 4]

\* total size = 16 + N*R*C
ImageLengthOk(b) ==
    /\ Len(b) >= 16
    /\ Len(b) = 16 + HeaderField(b, 1) * HeaderField(b, 2) * HeaderField(b, 3)

\* total size = 8 + N
LabelLengthOk(b) ==
    /\ Len(b) >= 8
    /\ Len(b) = 8 + HeaderField(b, 1)

\* Sample i (from 0) of a well-formed image file, its pixels mapped by bin
DecodedSample(b, i, bin(_)) ==
    LET R == HeaderField(b, 2)
        C == HeaderField(b, 3)
    IN  [r \in 1..R |-> [c \in 1..C |-> bin(b[16 + i * R * C + (r - 1) * C + (c - 1) + 1])]]

DecodedSamples(b, bin(_)) ==
    [i \in 1..HeaderField(b, 1) |-> DecodedSample(b, i - 1, bin)]

InclusiveBin(p) == IF p >= 90 THEN 255 ELSE 0
ExclusiveBin(p) == IF p > 90 THEN 255 ELSE 0

\* the loader has run on a well-formed image file
LoadedWellFormed == imagesOk = "true" /\ ImageLengthOk(imageFile.bytes)

\* C1 (as claimed): an image file whose length differs from 16 + N*R*C and a
\* label file whose length differs from 8 + N are never loaded successfully:
\* the loader returns true only for files of the declared length.
C1_WrongLengthRejected ==
    /\ imagesOk = "true" => ImageLengthOk(imageFile.bytes)
    /\ labelsOk = "true" => LabelLengthOk(labelFile.bytes)

\* C2 (as claimed): every stored pixel of a loaded file is 255 if the raw byte
\* is >= 90 and 0 otherwise (inclusive lower bound: 90 -> 255, 89 -> 0).
C2_InclusiveThreshold ==
    LoadedWellFormed =>
        \E pre \in InitialImages :
            images = pre \o DecodedSamples(imageFile.bytes, InclusiveBin)

\* C2 (amended): every stored pixel of a loaded file is 255 if the raw byte is
\* > 90 and 0 otherwise (exclusive bound: 91 -> 255, 90 -> 0).
C2_ExclusiveThreshold ==
    LoadedWellFormed =>
        \A k \in 1..HeaderField(imageFile.bytes, 1) :
            LET img == images[Len(images) - HeaderField(imageFile.bytes, 1) + k]
                b == imageFile.bytes
                R == HeaderField(b, 2)
                C == HeaderField(b, 3)
            IN  \A r \in 1..R, c \in 1..C :
                    LET raw == b[16 + (k - 1) * R * C + (r - 1) * C + c]
                    IN  /\ raw > 90 => img[r][c] = 255
                        /\ raw <= 90 => img[r][c] = 0

\* C2 witness: a loaded image holding a raw 90 stored as 0 next to a raw 91
\* stored as 255
C2_Witness ==
    /\ LoadedWellFormed
    /\ imageFile.bytes = ImageHeader(1, 1, 2) \o <<90, 91>>
    /\ images[Len(images)] = << <<0, 255>> >>

\* The three samples of the documented scenario
ScenarioSamples ==
    << << <<255, 0>>, <<0, 255>> >>,
       << <<255, 255>>, <<0, 0>> >>,
       << <<0, 0>>, <<0, 0>> >> >>

\* C3: for every well-formed image file the loader appends exactly N samples
\* of R rows by C columns, in file order, pixel (r, c) of sample i being the
\* binarization of the byte at offset 16 + i*R*C + r*C + c; the file with
\* N=3, R=2, C=2 and bytes [100,10,10,100, 95,95,0,0, 5,5,5,5] gives
\* [[255,0],[0,255]], [[255,255],[0,0]], [[0,0],[0,0]].
C3_WellFormedDecoding ==
    /\ LoadedWellFormed =>
          \E pre \in InitialImages :
              images = pre \o DecodedSamples(imageFile.bytes, ExclusiveBin)
    /\ (imagesOk = "true" /\ imageFile.bytes = ScenarioBytes) =>
          \E pre \in InitialImages : images = pre \o ScenarioSamples

\* C3 witness: the scenario file has been loaded behind an image already there
C3_Witness ==
    /\ imagesOk = "true"
    /\ imageFile.bytes = ScenarioBytes
    /\ Len(images) = 4
    /\ images[2] = ScenarioSamples[1]

-----------------------------------------------------------------------------
(*             PROCESSFRAME (RealtimeDigitClassifier.cpp 33-102)            *)

\* Size of the synthetic frames, and the blobs swept over them
FrameCols == 16
FrameRows == 16
MaxBlob == 6
MaxOffset == 2

\* threshold(frame, frame, 110, 255, THRESH_BINARY_INV)
SegThresh == 110
SegMax == 255
\* blur(frame, frame, Size(5, 5))
BlurSize == 5

\* An image is a function [y \in 0..rows-1 -> [x \in 0..cols-1 -> value]]
ImgRows(img) == Cardinality(DOMAIN img)
ImgCols(img) == IF DOMAIN img = {} THEN 0 ELSE Cardinality(DOMAIN img[0])
Pt(x, y) == [x |-> x, y |-> y]
Rect(x, y, w, h) == [x |-> x, y |-> y, width |-> w, height |-> h]
InRect(p, rc) ==
    /\ rc.x <= p.x /\ p.x < rc.x + rc.width
    /\ rc.y <= p.y /\ p.y < rc.y + rc.height

\* cvtColor(frame, frame, CV_BGR2GRAY) on one 8-bit pixel <<b, g, r>>:
\* fixed-point 0.114 B + 0.587 G + 0.299 R with 14 fraction bits
CvtGray(px) == (px[1] * 1868 + px[2] * 9617 + px[3] * 4899 + 8192) \div 16384

\* BORDER_REFLECT_101 (the default border of blur): gfedcb|abcdefgh|gfedcba.
\* borderInterpolate returns 0 for a length of 1 and otherwise reflects until
\* the index is inside.
RECURSIVE Reflect101(_, _)
Reflect101(i, n) ==
    IF n = 1 THEN 0
    ELSE IF i < 0 THEN Reflect101(-i, n)
    ELSE IF i >= n THEN Reflect101(2 * (n - 1) - i, n)
    ELSE i

RECURSIVE SumOver(_, _)
SumOver(f, S) ==
    IF S = {} THEN 0
    ELSE LET k == CHOOSE k \in S : TRUE IN f[k] + SumOver(f, S \ {k})

\* blur with a 5x5 normalised box filter, anchor at the centre: the mean of the
\* 25 neighbours rounded to the nearest integer (the sum is filtered by rows,
\* then by columns)
Blur(img) ==
    LET rows == ImgRows(img)
        cols == ImgCols(img)
        half == BlurSize \div 2
        win == (0 - half)..half
        area == BlurSize * BlurSize
        rowSum == [y \in 0..rows - 1 |-> [x \in 0..cols - 1 |->
                      SumOver([d \in win |-> img[y][Reflect101(x + d, cols)]], win)]]
    IN  [y \in 0..rows - 1 |-> [x \in 0..cols - 1 |->
            (2 * SumOver([d \in win |-> rowSum[Reflect101(y + d, rows)][x]], win) + area)
                \div (2 * area)]]

ThresholdBinaryInvStrict(p, thresh, maxval) == IF p >= thresh THEN 0 ELSE maxval

\* cv::threshold(..., THRESH_BINARY_INV) on one pixel: 0 if src > thresh, else maxval
ThresholdBinaryInv(p, thresh, maxval) == IF p > thresh THEN 0 ELSE maxval

\* lines 36-38: grey, blur, inverse threshold
Binarize(bgr) ==
    LET grey == [y \in DOMAIN bgr |-> [x \in DOMAIN bgr[y] |-> CvtGray(bgr[y][x])]]
        soft == Blur(grey)
    IN  [y \in DOMAIN soft |-> [x \in DOMAIN soft[y] |->
            ThresholdBinaryInv(soft[y][x], SegThresh, SegMax)]]

\* An ROI whose size is rounded up instead of truncated
RoiOfRoundedUp(cols, rows) ==
    Rect(cols \div 8, rows \div 8, (3 * cols + 3) \div 4, (3 * rows + 3) \div 4)

\* lines 43-47: size = 0.75f; Rect(int(cols * (1 - size) / 2.0f), ..., int(cols * size), ...)
\* cols * 0.25f / 2.0f and cols * 0.75f are exact in float; the cast truncates
RoiOf(cols, rows) == Rect(cols \div 8, rows \div 8, (3 * cols) \div 4, (3 * rows) \div 4)

Neighbours4(p) == {Pt(p.x + 1, p.y), Pt(p.x - 1, p.y), Pt(p.x, p.y + 1), Pt(p.x, p.y - 1)}
Neighbours8(p) ==
    {Pt(p.x + dx, p.y + dy) : dx \in {-1, 0, 1}, dy \in {-1, 0, 1}} \ {p}

Neighbours(p, conn) == IF conn = 4 THEN Neighbours4(p) ELSE Neighbours8(p)

\* The points of S connected (4- or 8-connectivity) to those of front, which
\* are already in seen
RECURSIVE Grow(_, _, _, _)
Grow(S, seen, front, conn) ==
    IF front = {} THEN seen
    ELSE LET next == (UNION {Neighbours(p, conn) : p \in front} \cap S) \ seen
         IN  Grow(S, seen \cup next, next, conn)

PointsWith(img, v) ==
    {p \in {Pt(x, y) : x \in 0..ImgCols(img) - 1, y \in 0..ImgRows(img) - 1} : img[p.y][p.x] = v}

\* floodFill rejects a seed outside the image ("Seed point is outside of image")
SeedInside(img, seed) ==
    seed.x >= 0 /\ seed.x < ImgCols(img) /\ seed.y >= 0 /\ seed.y < ImgRows(img)

\* floodFill(frame, seed, Scalar(0)) with a seed inside the image: default flags
\* (4-connectivity), zero loDiff/upDiff: the 4-connected run of pixels equal to
\* the seed pixel gets newVal
FloodFill(img, seed, newVal) ==
    IF img[seed.y][seed.x] = newVal THEN img
    ELSE LET comp == Grow(PointsWith(img, img[seed.y][seed.x]), {seed}, {seed}, 4)
         IN  [y \in DOMAIN img |-> [x \in DOMAIN img[y] |->
                 IF Pt(x, y) \in comp THEN newVal ELSE img[y][x]]]

\* lines 51-54: the four seeds tl, bl, br, tr, in this order
FloodSeeds(roi) ==
    << Pt(roi.x, roi.y), Pt(roi.x, roi.y + roi.height),
       Pt(roi.x + roi.width, roi.y + roi.height), Pt(roi.x + roi.width, roi.y) >>

\* lines 51-54: [ok, img]; ok is FALSE when one of the calls throws
FloodFillCorners(img, roi) ==
    LET seeds == FloodSeeds(roi)
    IN  IF \E k \in 1..4 : ~SeedInside(img, seeds[k]) THEN [ok |-> FALSE, img |-> img]
        ELSE [ok |-> TRUE,
              img |-> FloodFill(FloodFill(FloodFill(FloodFill(img, seeds[1], 0),
                                                    seeds[2], 0), seeds[3], 0), seeds[4], 0)]

\* getStructuringElement(MORPH_ELLIPSE, Size(3, 3)): rows 0 and 2 hold only the
\* centre column, row 1 all three: a cross
Ellipse3(p) == Neighbours4(p) \cup {p}

\* morphologyEx(frame, frame, MORPH_CLOSE, element): dilate, then erode; pixels
\* beyond the border never win the max (dilate) nor the min (erode)
MorphClose(img) ==
    LET inside(p) == p.x >= 0 /\ p.x < ImgCols(img) /\ p.y >= 0 /\ p.y < ImgRows(img)
        dil == [y \in DOMAIN img |-> [x \in DOMAIN img[y] |->
                   IF \E q \in Ellipse3(Pt(x, y)) : inside(q) /\ img[q.y][q.x] # 0
                   THEN SegMax ELSE 0]]
    IN  [y \in DOMAIN img |-> [x \in DOMAIN img[y] |->
            IF \A q \in Ellipse3(Pt(x, y)) : inside(q) => dil[q.y][q.x] # 0
            THEN SegMax ELSE 0]]

BoundingRectSpan(S) ==
    LET xs == {p.x : p \in S}
        ys == {p.y : p \in S}
        x0 == CHOOSE v \in xs : \A u \in xs : v <= u
        x1 == CHOOSE v \in xs : \A u \in xs : v >= u
        y0 == CHOOSE v \in ys : \A u \in ys : v <= u
        y1 == CHOOSE v \in ys : \A u \in ys : v >= u
    IN  Rect(x0, y0, x1 - x0, y1 - y0)

\* boundingRect(contour): the smallest upright rectangle holding every point
BoundingRect(S) ==
    LET xs == {p.x : p \in S}
        ys == {p.y : p \in S}
        x0 == CHOOSE v \in xs : \A u \in xs : v <= u
        x1 == CHOOSE v \in xs : \A u \in xs : v >= u
        y0 == CHOOSE v \in ys : \A u \in ys : v <= u
        y1 == CHOOSE v \in ys : \A u \in ys : v >= u
    IN  Rect(x0, y0, x1 - x0 + 1, y1 - y0 + 1)

\* The 8-connected components of the point set S
RECURSIVE Components(_)
Components(S) ==
    IF S = {} THEN {}
    ELSE LET p == CHOOSE p \in S : TRUE
             comp == Grow(S, {p}, {p}, 8)
         IN  {comp} \cup Components(S \ comp)

\* lines 60-62: findContours(frame(roi).clone(), contours, CV_RETR_EXTERNAL,
\* CV_CHAIN_APPROX_SIMPLE): one contour per 8-connected component of non-zero
\* pixels that no other component encloses, i.e. that touches the background
\* reached from outside the sub-image. OpenCV before 3.2 first clears the
\* 1-pixel border of the sub-image (clipsBorder). The result is the set of
\* bounding rectangles, in coordinates of the ROI sub-image.
FindContours(img, roi, clipsBorder) ==
    LET w == roi.width
        h == roi.height
        all == {Pt(x, y) : x \in 0..w - 1, y \in 0..h - 1}
        onBorder(p) == p.x = 0 \/ p.y = 0 \/ p.x = w - 1 \/ p.y = h - 1
        fg == {p \in all : /\ img[p.y + roi.y][p.x + roi.x] # 0
                           /\ ~(clipsBorder /\ onBorder(p))}
        ring == {Pt(x, y) : x \in -1..w, y \in -1..h} \ all
        outer == Grow((all \ fg) \cup ring, ring, ring, 4)
    IN  {BoundingRect(comp) :
            comp \in {c \in Components(fg) : \E p \in c : Neighbours4(p) \cap outer # {}}}

\* ---- the loop body, lines 69-101 ----

PadRounded(n) == (2 * n + 5) \div 10

\* static_cast<int>(boundRect.height * 0.2): the double product truncated
Pad(n) == n \div 5

\* lines 76-82: frame(boundRect).clone(), then copyMakeBorder(image, image,
\* hpad, hpad, wpad, wpad, BORDER_CONSTANT, 0)
CropPad(img, rc) ==
    LET hpad == Pad(rc.height)
        wpad == Pad(rc.width)
    IN  [y \in 0..rc.height + 2 * hpad - 1 |-> [x \in 0..rc.width + 2 * wpad - 1 |->
            IF /\ y >= hpad /\ y < hpad + rc.height
               /\ x >= wpad /\ x < wpad + rc.width
            THEN img[rc.y + y - hpad][rc.x + x - wpad]
            ELSE 0]]

Foreground(buf) == Cardinality(PointsWith(buf, SegMax))

\* detector.Predict(image): the loaded detector model is a fixed function of
\* the buffer; four such functions stand for the model file's content
DetectorKinds == {"never", "negative", "always", "large"}
DetectorPredict(kind, buf) ==
    CASE kind = "never" -> 0
      [] kind = "negative" -> -1
      [] kind = "always" -> 1
      [] kind = "large" -> IF Foreground(buf) >= 20 THEN 1 ELSE 0

AcceptsNonNegative(detect) == detect >= 0

\* line 89: if (detect > 0)
Accepts(detect) == detect > 0

\* classifier.Predict(image): likewise for the digit model
ClassifierKinds == {"seven", "count"}
ClassifierPredict(kind, buf) ==
    CASE kind = "seven" -> 7
      [] kind = "count" -> Foreground(buf) % 10

\* ---- displayFrame and frame ----

\* A conversion that writes into the buffer it is given
CvtColorKeepsBuffer(shares) == shares

\* main, line 171: processedFrame = frame copies the Mat header, so on entry to
\* ProcessFrame displayFrame and frame refer to one pixel buffer.
\* cvtColor(frame, frame, CV_BGR2GRAY), line 36: the destination is created
\* with one channel, which allocates a new buffer for frame; the three-channel
\* buffer stays with displayFrame.  The value is whether the two still share.
CvtColorShares(shares) == FALSE

\* The first channel of the colours drawn: Scalar(0, 0, 255) for the ROI, and
\* Scalar(rng.uniform(0, 255), ...) for a bounding rectangle
RoiColour == 0
BoxColours == {0, 128}

\* rectangle(img, tl, br, colour, thickness): the pixels of img on the four
\* sides of the rectangle with corners tl and br, thickness pixels wide, get
\* the colour
DrawRectangle(img, tl, br, colour, thickness) ==
    LET near(v, side) == v >= side - (thickness - 1) /\ v <= side + (thickness - 1)
        within(v, a, b) == v >= a - (thickness - 1) /\ v <= b + (thickness - 1)
        onSide(x, y) ==
            \/ (near(y, tl.y) \/ near(y, br.y)) /\ within(x, tl.x, br.x)
            \/ (near(x, tl.x) \/ near(x, br.x)) /\ within(y, tl.y, br.y)
    IN  [y \in DOMAIN img |-> [x \in DOMAIN img[y] |->
            IF onSide(x, y) THEN colour ELSE img[y][x]]]

\* What a rectangle drawn on displayFrame does to frame: nothing, unless the
\* two share their buffer
DrawOnDisplay(img, shares, tl, br, colour, thickness) ==
    IF shares THEN DrawRectangle(img, tl, br, colour, thickness) ELSE img

\* Rect::tl() and Rect::br()
Tl(rc) == Pt(rc.x, rc.y)
Br(rc) == Pt(rc.x + rc.width, rc.y + rc.height)

\* ---- the frames ProcessFrame is run on ----

\* <<blob intensity, background intensity>>
Inks == {<<0, 255>>, <<100, 255>>}

Scene(blobs, ink, clips, det, cls) ==
    [blobs |-> blobs, dark |-> ink[1], light |-> ink[2], clipsBorder |-> clips,
     detectorKind |-> det, classifierKind |-> cls]

FrameRoi == RoiOf(FrameCols, FrameRows)

\* one rectangular blob inside the ROI, every size up to MaxBlob at every
\* offset up to MaxOffset from the ROI's corner
SweepBlobs ==
    {Rect(FrameRoi.x + dx, FrameRoi.y + dy, w, h) :
        dx \in 0..MaxOffset, dy \in 0..MaxOffset, w \in 1..MaxBlob, h \in 1..MaxBlob}

SweepScenes ==
    {Scene({b}, ink, clips, "always", "count") :
        b \in {r \in SweepBlobs : /\ r.x + r.width <= FrameRoi.x + FrameRoi.width
                                  /\ r.y + r.height <= FrameRoi.y + FrameRoi.height},
        ink \in Inks, clips \in BOOLEAN}

\* no blob, and two blobs, under every pair of models
GatingScenes ==
    {Scene(blobs, <<0, 255>>, clips, det, cls) :
        blobs \in {{},
                   {Rect(FrameRoi.x + 1, FrameRoi.y + 1, 4, 4),
                    Rect(FrameRoi.x + 5, FrameRoi.y + 5, 6, 6)}},
        clips \in BOOLEAN, det \in DetectorKinds, cls \in ClassifierKinds}

Scenes == SweepScenes \cup GatingScenes

\* The captured BGR frame of the given size showing the scene
RenderAt(sc, cols, rows) ==
    [y \in 0..rows - 1 |-> [x \in 0..cols - 1 |->
        LET v == IF \E b \in sc.blobs : InRect(Pt(x, y), b) THEN sc.dark ELSE sc.light
        IN  <<v, v, v>>]]

Render(sc) == RenderAt(sc, FrameCols, FrameRows)

\* Frames of every width and height from 1 to MaxSide: blank, with a blob
\* near the ROI's corner, and with a bar that crosses the ROI from the top
\* edge of the frame to the bottom edge
MaxSide == 10

SizedBlobs(cols, rows) ==
    {{},
     {Rect(cols \div 8 + 1, rows \div 8 + 1, 4, 4)},
     {Rect(cols \div 2 - 2, 0, 4, rows)}}

SizedScenes ==
    UNION {{[blobs |-> blobs, dark |-> 0, light |-> 255, clipsBorder |-> clips,
             detectorKind |-> "always", classifierKind |-> "count",
             cols |-> cols, rows |-> rows] :
                blobs \in SizedBlobs(cols, rows), clips \in BOOLEAN} :
           cols \in 1..MaxSide, rows \in 1..MaxSide}

\* ---- ProcessFrame, statement by statement ----

InitFrame ==
    /\ scene \in Scenes
    /\ frame = Render(scene)
    /\ fpc = "threshold"
    /\ contours = <<>>
    /\ ci = 0
    /\ regions = <<>>
    /\ detections = <<>>
    /\ classifierCalls = 0
    /\ displayShares = TRUE
    /\ LoaderIdle /\ MainIdle /\ SvmIdle /\ ExtIdle

\* lines 36-38: cvtColor, blur, threshold
ThresholdFrame ==
    /\ fpc = "threshold"
    /\ frame' = Binarize(frame)
    /\ displayShares' = CvtColorShares(displayShares)
    /\ fpc' = "flood"
    /\ UNCHANGED <<scene, contours, ci, regions, detections, classifierCalls>>
    /\ UNCHANGED <<loaderVars, mainVars, svmVars, extVars>>

\* lines 43-54: the ROI, drawn on displayFrame, and the four flood fills; a
\* seed outside the frame makes floodFill throw, which ends ProcessFrame
FloodFillRoi ==
    /\ fpc = "flood"
    /\ LET roi == RoiOf(ImgCols(frame), ImgRows(frame))
           res == FloodFillCorners(DrawOnDisplay(frame, displayShares, Tl(roi), Br(roi),
                                                 RoiColour, 1), roi)
       IN  /\ frame' = res.img
           /\ fpc' = IF res.ok THEN "close" ELSE "thrown"
    /\ UNCHANGED <<scene, contours, ci, regions, detections, classifierCalls,
                   displayShares>>
    /\ UNCHANGED <<loaderVars, mainVars, svmVars, extVars>>

\* line 57: morphologyEx(frame, frame, MORPH_CLOSE, ...)
CloseHoles ==
    /\ fpc = "close"
    /\ frame' = MorphClose(frame)
    /\ fpc' = "contours"
    /\ UNCHANGED <<scene, contours, ci, regions, detections, classifierCalls,
                   displayShares>>
    /\ UNCHANGED <<loaderVars, mainVars, svmVars, extVars>>

\* The sequences that list the elements of the finite set S once each
Orderings(S) ==
    {q \in [1..Cardinality(S) -> S] : \A i, j \in 1..Cardinality(S) : q[i] = q[j] => i = j}

\* lines 60-62: findContours on a clone of frame(roi); the order of the
\* contours in the vector is the library's.  On an ROI without pixels the
\* clone is an empty Mat, which findContours either rejects with an exception
\* or searches to no effect, depending on the release.
FindContoursInRoi ==
    /\ fpc = "contours"
    /\ LET roi == RoiOf(ImgCols(frame), ImgRows(frame))
       IN  \/ /\ \E order \in Orderings(FindContours(frame, roi, scene.clipsBorder)) :
                    contours' = order
              /\ fpc' = "loop"
           \/ /\ roi.width = 0 \/ roi.height = 0
              /\ contours' = <<>>
              /\ fpc' = "thrown"
    /\ ci' = 0
    /\ UNCHANGED <<scene, frame, regions, detections, classifierCalls, displayShares>>
    /\ UNCHANGED <<loaderVars, mainVars, svmVars, extVars>>

\* lines 69-101, one turn of the for loop, i = ci.  The rectangle and the text
\* of an accepted contour are drawn on displayFrame (recorded in detections).
ClassifyContour ==
    /\ fpc = "loop"
    /\ ci < Len(contours)
    /\ LET roi == RoiOf(ImgCols(frame), ImgRows(frame))
           c == contours[ci + 1]
           boundRect == Rect(c.x + roi.x, c.y + roi.y, c.width, c.height)
           image == CropPad(frame, boundRect)
           detect == DetectorPredict(scene.detectorKind, image)
       IN  /\ regions' = Append(regions, [rect |-> boundRect, image |-> image,
                                          detect |-> detect])
           /\ IF Accepts(detect)
              THEN /\ detections' = Append(detections,
                          [rect |-> boundRect,
                           digit |-> ClassifierPredict(scene.classifierKind, image)])
                   /\ classifierCalls' = classifierCalls + 1
                   /\ \E colour \in BoxColours :
                         frame' = DrawOnDisplay(frame, displayShares, Tl(boundRect),
                                                Br(boundRect), colour, 2)
              ELSE UNCHANGED <<detections, classifierCalls, frame>>
    /\ ci' = ci + 1
    /\ UNCHANGED <<scene, fpc, contours, displayShares>>
    /\ UNCHANGED <<loaderVars, mainVars, svmVars, extVars>>

\* line 69: the loop condition fails, ProcessFrame returns
ReturnFromProcessFrame ==
    /\ fpc = "loop"
    /\ ci >= Len(contours)
    /\ fpc' = "done"
    /\ UNCHANGED <<scene, frame, contours, ci, regions, detections, classifierCalls,
                   displayShares>>
    /\ UNCHANGED <<loaderVars, mainVars, svmVars, extVars>>

NextFrame ==
    \/ ThresholdFrame
    \/ FloodFillRoi
    \/ CloseHoles
    \/ FindContoursInRoi
    \/ ClassifyContour
    \/ ReturnFromProcessFrame

SpecFrame == InitFrame /\ [][NextFrame]_vars

\* ProcessFrame on the frames of every size
InitSized ==
    /\ scene \in SizedScenes
    /\ frame = RenderAt(scene, scene.cols, scene.rows)
    /\ fpc = "threshold"
    /\ contours = <<>>
    /\ ci = 0
    /\ regions = <<>>
    /\ detections = <<>>
    /\ classifierCalls = 0
    /\ displayShares = TRUE
    /\ LoaderIdle /\ MainIdle /\ SvmIdle /\ ExtIdle

SpecSized == InitSized /\ [][NextFrame]_vars

-----------------------------------------------------------------------------
(*                         Claims about ProcessFrame                        *)

\* the loop of ProcessFrame has been reached (the contours are known)
Segmented == fpc \in {"loop", "done"}

\* round(0.2 * n), to the nearest integer (0.2 * n is never half-way)
RoundFifth(n) == (2 * n + 5) \div 10

\* C4 (as claimed): every Region's padded buffer is w + 2*round(0.2*w) wide and
\* h + 2*round(0.2*h) high, w and h being the unpadded bounding box.
C4_RoundedPadding ==
    \A k \in 1..Len(regions) :
        /\ ImgCols(regions[k].image) = regions[k].rect.width + 2 * RoundFifth(regions[k].rect.width)
        /\ ImgRows(regions[k].image) = regions[k].rect.height + 2 * RoundFifth(regions[k].rect.height)

\* C4 (amended): every Region's padded buffer is w + 2*p wide and h + 2*q high
\* where p and q are 0.2*w and 0.2*h truncated: 5p <= w < 5(p+1), 5q <= h < 5(q+1).
C4_TruncatedPadding ==
    \A k \in 1..Len(regions) :
        \E p \in 0..regions[k].rect.width, q \in 0..regions[k].rect.height :
            /\ 5 * p <= regions[k].rect.width /\ regions[k].rect.width < 5 * (p + 1)
            /\ 5 * q <= regions[k].rect.height /\ regions[k].rect.height < 5 * (q + 1)
            /\ ImgCols(regions[k].image) = regions[k].rect.width + 2 * p
            /\ ImgRows(regions[k].image) = regions[k].rect.height + 2 * q

\* C4 witness: a Region 4 wide, where rounding would pad by 1 and the code pads
\* by 0, next to a height that is padded
C4_Witness ==
    \E k \in 1..Len(regions) :
        /\ regions[k].rect.width \in {3, 4}
        /\ ImgCols(regions[k].image) = regions[k].rect.width
        /\ regions[k].rect.height >= 5
        /\ ImgRows(regions[k].image) > regions[k].rect.height

\* the Regions examined so far whose detector value was positive
RECURSIVE AcceptedRects(_)
AcceptedRects(rs) ==
    IF rs = <<>> THEN <<>>
    ELSE IF Head(rs).detect > 0 THEN <<Head(rs).rect>> \o AcceptedRects(Tail(rs))
    ELSE AcceptedRects(Tail(rs))

\* C5: the digit classifier is invoked, and a Detection emitted, for exactly
\* the Regions whose detector value is > 0; when the detector returns a
\* non-positive value for every Region there is no Detection and no call of
\* the digit classifier, whatever the digit classifier is; every contour of
\* the frame is put to the detector before ProcessFrame returns.
C5_TwoStageGating ==
    /\ Len(detections) = classifierCalls
    /\ [k \in 1..Len(detections) |-> detections[k].rect] = AcceptedRects(regions)
    /\ (\A k \in 1..Len(regions) : regions[k].detect <= 0)
          => (detections = <<>> /\ classifierCalls = 0)
    /\ \A k \in 1..Len(regions) :
          regions[k].detect = DetectorPredict(scene.detectorKind, regions[k].image)
    /\ fpc = "done" => Len(regions) = Len(contours)

\* C5 witness: a frame with two Regions is done, one Region rejected with
\* detector value 0 and one accepted
C5_Witness ==
    /\ fpc = "done"
    /\ Len(regions) = 2
    /\ \E j, k \in 1..2 : regions[j].detect = 0 /\ regions[k].detect > 0
    /\ Len(detections) = 1

\* the frame shows one blob
OneBlob == Cardinality(scene.blobs) = 1
TheBlob == CHOOSE b \in scene.blobs : TRUE

\* the Regions of a frame, as the bounding boxes in full-frame coordinates
ContourRects ==
    {Rect(contours[k].x + FrameRoi.x, contours[k].y + FrameRoi.y,
          contours[k].width, contours[k].height) : k \in 1..Len(contours)}

\* C6 (as claimed): for every frame with one solid dark rectangular blob inside
\* the ROI on a uniform light background, whatever the blob's size, the
\* segmentation yields exactly one Region, whose bounding box is the blob.
C6_EveryBlobIsolated ==
    (Segmented /\ OneBlob) => (Len(contours) = 1 /\ ContourRects = {TheBlob})

\* the blob lies inside the ROI without touching the ROI's border
StrictlyInsideRoi(b) ==
    /\ b.x > FrameRoi.x /\ b.x + b.width < FrameRoi.x + FrameRoi.width
    /\ b.y > FrameRoi.y /\ b.y + b.height < FrameRoi.y + FrameRoi.height

\* C6 (amended): for every frame with one solid black (0) rectangular blob, at
\* least 5 pixels wide and 5 pixels high, on a uniform white (255) background,
\* lying inside the ROI without touching the ROI's border, the segmentation
\* yields exactly one Region, whose bounding box is the blob.
C6_LargeBlackBlobIsolated ==
    (/\ Segmented /\ OneBlob
     /\ scene.dark = 0 /\ scene.light = 255
     /\ TheBlob.width >= 5 /\ TheBlob.height >= 5
     /\ StrictlyInsideRoi(TheBlob))
        => (/\ Len(contours) = 1
            /\ ContourRects = {TheBlob}
            /\ \A k \in 1..Len(regions) : regions[k].rect = TheBlob)

\* C6 witness: such a blob, 5 by 6, has been segmented and its Region examined
C6_Witness ==
    /\ fpc = "done" /\ OneBlob
    /\ scene.dark = 0 /\ scene.light = 255
    /\ TheBlob.width = 5 /\ TheBlob.height = 6
    /\ StrictlyInsideRoi(TheBlob)
    /\ Len(regions) = 1 /\ regions[1].rect = TheBlob

\* The Detections that a frame buffer, a set of Regions and the two models
\* determine: one per Region whose padded buffer the detector accepts
DetectionsOf(img, rects, det, cls) ==
    {[rect |-> r, digit |-> ClassifierPredict(cls, CropPad(img, r))] :
        r \in {q \in rects : Accepts(DetectorPredict(det, CropPad(img, q)))}}

\* C16: for a fixed frame and fixed models the set of Detections emitted by
\* ProcessFrame is the same for every order in which the Regions are
\* classified: the buffer classified for every Region is the padded crop of
\* the one segmented frame, which no classification or annotation of another
\* Region has changed, and when ProcessFrame returns the Detections are those
\* that the frame, the set of Regions and the two models determine, whatever
\* the order of the Regions was.
C16_DetectionsOrderIndependent ==
    Segmented =>
        /\ \A k \in 1..Len(regions) :
              regions[k].image = CropPad(frame, regions[k].rect)
        /\ fpc = "done" =>
              {detections[k] : k \in 1..Len(detections)}
                  = DetectionsOf(frame, ContourRects,
                                 scene.detectorKind, scene.classifierKind)

\* C16 witness: a frame with two Regions is done, the Regions were classified
\* right to left, one was rejected and the other annotated
C16_Witness ==
    /\ fpc = "done"
    /\ Len(contours) = 2
    /\ contours[1].x > contours[2].x
    /\ Len(detections) = 1
    /\ \E k \in 1..2 : regions[k].detect <= 0

\* rc lies inside the rectangle outer
RectInside(rc, outer) ==
    /\ rc.x >= outer.x /\ rc.x + rc.width <= outer.x + outer.width
    /\ rc.y >= outer.y /\ rc.y + rc.height <= outer.y + outer.height

\* Bound on the frame widths and heights whose ROI is computed without
\* running ProcessFrame on a frame of that size
MaxSweep == 1024

\* C17: for every frame of width and height >= 1 the ROI of ProcessFrame
\* (origin dim / 8, size 3 * dim / 4, both truncated) lies inside the frame,
\* the four flood-fill seeds are pixel coordinates of the frame (no flood fill
\* throws), and the bounding box of every Region, in frame coordinates, lies
\* inside the ROI and so inside the frame.
C17_RoiInsideFrame ==
    LET cols == ImgCols(frame)
        rows == ImgRows(frame)
        roi  == RoiOf(cols, rows)
    IN  /\ cols >= 1 /\ rows >= 1
        /\ roi.width >= 0 /\ roi.height >= 0
        /\ RectInside(roi, Rect(0, 0, cols, rows))
        /\ \A k \in 1..4 : SeedInside(frame, FloodSeeds(roi)[k])
        /\ fpc = "thrown" => (roi.width = 0 \/ roi.height = 0)
        /\ fpc = "threshold" => \A d \in 1..MaxSweep :
              /\ RectInside(RoiOf(d, d), Rect(0, 0, d, d))
              /\ \A k \in 1..4 :
                    LET seed == FloodSeeds(RoiOf(d, d))[k]
                    IN  seed.x >= 0 /\ seed.x < d /\ seed.y >= 0 /\ seed.y < d
        /\ \A k \in 1..Len(regions) :
              /\ regions[k].rect.width >= 1 /\ regions[k].rect.height >= 1
              /\ RectInside(regions[k].rect, roi)

\* C17 witness: a frame 10 wide and 9 high is done, and the Region of the bar
\* that crosses the ROI, as high as the ROI, has been cropped
C17_Witness ==
    /\ fpc = "done"
    /\ ImgCols(frame) = 10 /\ ImgRows(frame) = 9
    /\ Len(regions) = 1
    /\ regions[1].rect.y = RoiOf(10, 9).y
    /\ regions[1].rect.height = RoiOf(10, 9).height

-----------------------------------------------------------------------------
(*                    SVM WRAPPER (Svm.cpp, HogSvm.cpp)                      *)

\* m_svm is one of
\*   "untrained"  the object SVM::create() returns: no support vectors, var_count = 0
\*   "trained"    a model with support vectors (after train, or read from a model file)
\*   "null"       an empty cv::Ptr
\* A file is "missing", "invalid" (it exists and is not a serialized SVM model)
\* or "valid" (it exists and holds a serialized trained SVM model).
FileKinds == {"missing", "invalid", "valid"}

\* Svm::Svm(): m_svm = SVM::create()
SvmCreate == "untrained"

\* std::experimental::filesystem::exists(filename)
Exists(content) == content # "missing"

\* StatModel::load<SVM>(filename) on an existing file: the outcomes the library
\* has.  It reads the first top-level node into a fresh SVM and returns it if it
\* is trained.  On a file that holds no model it returns an empty Ptr (no node, or
\* a model that is not trained) or raises cv::Exception (unparsable content, or a
\* node without the SVM parameters), depending on the content and the release.
StatModelLoad(content) ==
    IF content = "valid"
    THEN {[thrown |-> FALSE, ptr |-> "trained"]}
    ELSE {[thrown |-> FALSE, ptr |-> "null"], [thrown |-> TRUE, ptr |-> "null"]}

\* Svm::Load(filename) on an instance holding model: the possible outcomes, each
\* the value returned ("thrown" when the library's exception leaves Load) and
\* the m_svm left behind.  The assignment to m_svm is not reached on a throw.
SvmLoad(model, content) ==
    IF ~Exists(content)
    THEN {[result |-> "false", m_svm |-> model]}
    ELSE {IF o.thrown THEN [result |-> "thrown", m_svm |-> model]
                      ELSE [result |-> "true", m_svm |-> o.ptr] :
          o \in StatModelLoad(content)}

\* A Predict that returns a value whatever the model holds
SvmPredictUnchecked(model) ==
    IF model = "null" THEN {"killed", "garbage"} ELSE {"label"}

\* Svm::Predict(features) and HogSvm::Predict(image): return m_svm->predict(input),
\* with no check of the wrapper's own.
\*   trained:   the library returns the predicted label
\*   untrained: the library's CV_Assert(samples.cols == var_count && ...) fails
\*              (var_count is 0, the sample is not empty, and an empty sample is
\*              not CV_32F after convertTo): cv::Exception, no value returned
\*   null:      a virtual call through a null pointer, undefined behaviour: the
\*              process is killed, or the call returns an arbitrary value
SvmPredict(model) ==
    CASE model = "trained"   -> {"label"}
      [] model = "untrained" -> {"thrown"}
      [] model = "null"      -> {"killed", "garbage"}

\* The hyperparameters of an SVM object; the model has the kernel family and
\* gamma.  The other setters (SetC, SetType, SetDegree, SetNu, SetP,
\* SetTermCriteria) have the form of SetGamma: one assignment to a field of the
\* SVM object's parameters.
KernelTypes == {"LINEAR", "POLY"}
GammaVals == {1, 2}

\* SVM::create(): the library's default parameters (RBF kernel, gamma 1)
DefaultParams == [kernel |-> "RBF", gamma |-> 1]

\* What params and kernel hold while m_svm is an empty Ptr
NoParams == [kernel |-> "none", gamma |-> 0]

\* The library's checkParams, run by train: a linear kernel has gamma 1
CheckParams(p) == IF p.kernel = "LINEAR" THEN [p EXCEPT !.gamma = 1] ELSE p

\* The decision function predict evaluates: the support vectors and the kernel
\* object's own copy of the parameters (gamma is not used by the linear kernel).
Decision(k, s) ==
    [kernel |-> k.kernel,
     gamma  |-> IF k.kernel = "LINEAR" THEN 1 ELSE k.gamma,
     sv     |-> s]

\* The training sets offered, by their number of samples (rows of features) and
\* of labels.  "setA" and "setB" are two different sets with one label per
\* sample and at least two classes.
TrainSets == {"setA", "setB", "empty", "noLabels", "fewerLabels", "moreLabels"}

NumSamples(data) ==
    CASE data \in {"setA", "setB", "noLabels", "fewerLabels"} -> 2
      [] data = "moreLabels" -> 1
      [] data = "empty" -> 0

NumLabels(data) ==
    CASE data \in {"setA", "setB", "moreLabels"} -> 2
      [] data = "fewerLabels" -> 1
      [] data \in {"empty", "noLabels"} -> 0

\* m_svm->train(samples, ROW_SAMPLE, responses): what the library does to the
\* SVM object, and whether it throws.
\*   labels present, not one per sample: TrainData::create fails its assertion
\*       responses.rows == nsamples before the SVM is touched
\*   samples present, no labels: TrainData::create accepts; SVM::train clears
\*       the model, runs checkParams, finds no categorical responses and throws
\*   no samples, no labels: rejected before the SVM is touched, or as the case
\*       above, depending on the release
\*   otherwise the model is cleared and fitted
LibraryTrain(samples, responses) ==
    CASE responses > 0 /\ responses # samples
              -> {[thrown |-> TRUE, effect |-> "untouched"]}
      [] responses = 0 /\ samples > 0
              -> {[thrown |-> TRUE, effect |-> "cleared"]}
      [] responses = 0 /\ samples = 0
              -> {[thrown |-> TRUE, effect |-> "untouched"],
                  [thrown |-> TRUE, effect |-> "cleared"]}
      [] OTHER
              -> {[thrown |-> FALSE, effect |-> "fitted"]}

\* Svm::Train(features, labels) and HogSvm::Train(images, labels):
\* m_svm->train(...); return true.  The library's return value is not looked at.
SvmTrainRows(model, samples, responses) ==
    IF model = "null"
    THEN {[result |-> "killed", m_svm |-> model, effect |-> "untouched"],
          [result |-> "true", m_svm |-> model, effect |-> "untouched"]}
    ELSE {[result |-> IF o.thrown THEN "thrown" ELSE "true",
           m_svm  |-> CASE o.effect = "fitted"  -> "trained"
                        [] o.effect = "cleared" -> "untrained"
                        [] OTHER                -> model,
           effect |-> o.effect] : o \in LibraryTrain(samples, responses)}

\* Train on one of the training sets
SvmTrain(model, data) == SvmTrainRows(model, NumSamples(data), NumLabels(data))

\* Svm::Save(filename): false for the empty file name; otherwise m_svm->save,
\* which opens the file for writing and then writes the model; writing a model
\* that is not trained raises cv::Exception and leaves the opened file behind.
\* When the file cannot be opened for writing nothing is written, and the
\* library either goes on silently or throws, depending on the release.
\* Each outcome is the value returned and the content of the file afterwards.
SvmSave(model, filename, content, writable) ==
    CASE filename = ""       -> {[result |-> "false", content |-> content]}
      [] model = "null"      -> {[result |-> "killed", content |-> content]} \cup
                                IF writable
                                THEN {[result |-> "killed", content |-> "invalid"]}
                                ELSE {}
      [] model = "untrained" -> {[result |-> "thrown",
                                  content |-> IF writable THEN "invalid" ELSE content]}
      [] model = "trained"   -> IF writable
                                THEN {[result |-> "true", content |-> "valid"]}
                                ELSE {[result |-> "true", content |-> content],
                                      [result |-> "thrown", content |-> content]}

\* The files of the model: a name in the working directory, a name in a
\* directory that does not exist, and the empty name
FileNames == {"a.xml"}
UnwritableNames == {"nodir/c.xml"}
SaveNames == FileNames \cup UnwritableNames
FileArgs == SaveNames \cup {""}

Content(filename) == IF filename \in DOMAIN fs THEN fs[filename] ELSE "missing"

Writable(filename) == filename \in FileNames

Alive == lastOp.result # "killed"

Returned(result) == result = "true"

\* What a file that is not a valid model holds, and what a valid file present
\* before the run holds
NoStored == [params |-> NoParams, sv |-> "none"]
DiskModel == [params |-> [kernel |-> "POLY", gamma |-> 2], sv |-> "disk"]

NotSaved == [file |-> "", params |-> NoParams, kernel |-> NoParams, sv |-> "none"]

InitSvm ==
    /\ LoaderIdle /\ FrameIdle /\ MainIdle /\ ExtIdle
    /\ m_svm = SvmCreate
    /\ fs \in [FileNames -> FileKinds]
    /\ lastOp = [op |-> "Svm", arg |-> "", result |-> "constructed"]
    /\ installed = FALSE
    /\ params = DefaultParams
    /\ kernel = DefaultParams
    /\ sv = "none"
    /\ stored = [f \in FileNames |-> IF fs[f] = "valid" THEN DiskModel ELSE NoStored]
    /\ saved = NotSaved

\* Svm::Load: on success m_svm points to a new object read from the file, whose
\* kernel object is built from the parameters read
Load(filename) ==
    /\ Alive
    /\ \E o \in SvmLoad(m_svm, Content(filename)) :
          /\ m_svm' = o.m_svm
          /\ lastOp' = [op |-> "Load", arg |-> filename, result |-> o.result]
          /\ installed' = (installed \/ Returned(o.result))
          /\ IF o.result # "true"
             THEN UNCHANGED <<params, kernel, sv>>
             ELSE IF o.m_svm = "null"
                  THEN params' = NoParams /\ kernel' = NoParams /\ sv' = "none"
                  ELSE /\ params' = stored[filename].params
                       /\ kernel' = stored[filename].params
                       /\ sv' = stored[filename].sv
    /\ UNCHANGED <<fs, stored, saved, loaderVars, frameVars, mainVars, extVars>>

Train(data) ==
    /\ Alive
    /\ \E o \in SvmTrain(m_svm, data) :
          /\ m_svm' = o.m_svm
          /\ lastOp' = [op |-> "Train", arg |-> data, result |-> o.result]
          /\ installed' = (installed \/ Returned(o.result))
          /\ CASE o.effect = "fitted"  -> /\ params' = CheckParams(params)
                                          /\ kernel' = CheckParams(params)
                                          /\ sv' = data
               [] o.effect = "cleared" -> /\ params' = CheckParams(params)
                                          /\ kernel' = CheckParams(params)
                                          /\ sv' = "none"
               [] OTHER                -> UNCHANGED <<params, kernel, sv>>
    /\ UNCHANGED <<fs, stored, saved, loaderVars, frameVars, mainVars, extVars>>

Save(filename) ==
    /\ Alive
    /\ \E o \in SvmSave(m_svm, filename, Content(filename), Writable(filename)) :
          /\ fs' = IF filename \in DOMAIN fs
                   THEN [fs EXCEPT ![filename] = o.content] ELSE fs
          /\ stored' = IF filename \in DOMAIN fs
                       THEN [stored EXCEPT ![filename] =
                                IF o.result = "true"
                                THEN [params |-> params, sv |-> sv]
                                ELSE IF o.content = Content(filename)
                                     THEN stored[filename] ELSE NoStored]
                       ELSE stored
          /\ saved' = IF o.result = "true"
                      THEN [file |-> filename, params |-> params,
                            kernel |-> kernel, sv |-> sv]
                      ELSE IF filename = saved.file /\ o.content # Content(filename)
                           THEN NotSaved ELSE saved
          /\ lastOp' = [op |-> "Save", arg |-> filename, result |-> o.result]
    /\ UNCHANGED <<m_svm, installed, params, kernel, sv,
                   loaderVars, frameVars, mainVars, extVars>>

Predict ==
    /\ Alive
    /\ \E r \in SvmPredict(m_svm) :
          lastOp' = [op |-> "Predict", arg |-> "", result |-> r]
    /\ UNCHANGED <<m_svm, fs, installed, params, kernel, sv, stored, saved,
                   loaderVars, frameVars, mainVars, extVars>>

\* A setter on an empty Ptr is a call through a null pointer
SetterResult == IF m_svm = "null" THEN "killed" ELSE "void"

\* Svm::SetKernel: m_svm->setKernel(kernel) stores the kernel type in the SVM
\* object's parameters, and builds a new kernel object from them
SetKernelParams(p, k) == [p EXCEPT !.kernel = k]

SetKernel(k) ==
    /\ Alive
    /\ lastOp' = [op |-> "SetKernel", arg |-> k, result |-> SetterResult]
    /\ IF m_svm = "null"
       THEN UNCHANGED <<params, kernel>>
       ELSE /\ params' = SetKernelParams(params, k)
            /\ kernel' = SetKernelParams(params, k)
    /\ UNCHANGED <<m_svm, fs, installed, sv, stored, saved,
                   loaderVars, frameVars, mainVars, extVars>>

\* Svm::SetGamma: m_svm->setGamma(gamma) stores gamma in the SVM object's
\* parameters; the kernel object keeps its copy
SetGammaParams(p, g) == [p EXCEPT !.gamma = g]

SetGamma(g) ==
    /\ Alive
    /\ lastOp' = [op |-> "SetGamma", arg |-> ToString(g), result |-> SetterResult]
    /\ IF m_svm = "null"
       THEN UNCHANGED params
       ELSE params' = SetGammaParams(params, g)
    /\ UNCHANGED <<m_svm, fs, installed, kernel, sv, stored, saved,
                   loaderVars, frameVars, mainVars, extVars>>

NextSvm ==
    \/ \E filename \in FileArgs : Load(filename)
    \/ \E data \in TrainSets : Train(data)
    \/ \E filename \in FileArgs : Save(filename)
    \/ Predict
    \/ \E k \in KernelTypes : SetKernel(k)
    \/ \E g \in GammaVals : SetGamma(g)

SpecSvm == InitSvm /\ [][NextSvm]_vars

-----------------------------------------------------------------------------
(*                        Claims about the SVM wrapper                       *)

\* The outcomes of Predict in which the caller receives a value
PredictValues == {"label", "garbage"}

C10_LoadReportsValidity ==
    lastOp.op = "Load" =>
        /\ Content(lastOp.arg) # "valid" => lastOp.result # "true"
        /\ lastOp.result = "true" => m_svm = "trained"

\* A data set Train must refuse: no sample, or not one label per sample
BadTrainSet(data) == NumSamples(data) = 0 \/ NumLabels(data) # NumSamples(data)

\* C11: Train fails with an error, without fitting or replacing any model,
\* whenever the data set is empty or the number of labels differs from the
\* number of samples: a Train step on such a set throws and leaves the model
\* of the instance (trained or not, its support vectors, its decision
\* function) as it was.
C11_TrainRejectsBadData ==
    [][(lastOp'.op = "Train" /\ BadTrainSet(lastOp'.arg) /\ m_svm # "null") =>
          /\ lastOp'.result = "thrown"
          /\ m_svm' = m_svm
          /\ sv' = sv
          /\ Decision(kernel', sv') = Decision(kernel, sv)]_vars

\* The instance holds a model fitted by Train
TrainedByTrain == m_svm = "trained" /\ sv \in {"setA", "setB"}

Setters == {"SetKernel", "SetGamma"}

\* C13: after Train has completed, a hyperparameter setter call leaves the
\* trained model unchanged: a setter step taken while the instance holds a
\* model fitted by Train changes neither the hyperparameters stored in the
\* model nor its decision function (the result of Predict on every input).
C13_SettersLeaveTrainedModel ==
    [][(lastOp'.op \in Setters /\ TrainedByTrain) =>
          /\ params' = params
          /\ Decision(kernel', sv') = Decision(kernel, sv)]_vars

\* C15: persistence round trip: when a Save of a trained model to a file name
\* has returned true, a Load of that file name (on an instance in any state)
\* succeeds and yields a model with the hyperparameters the saved model had
\* and with the same decision function, that is the same Predict on every
\* input.
C15_SaveLoadRoundTrip ==
    (lastOp.op = "Load" /\ saved.file # "" /\ lastOp.arg = saved.file) =>
        /\ lastOp.result = "true"
        /\ m_svm = "trained"
        /\ params = saved.params
        /\ Decision(kernel, sv) = Decision(saved.kernel, saved.sv)

-----------------------------------------------------------------------------
(*                         Svm::Test (Svm.cpp)                               *)

\* Bound on the number of rows of the features and labels matrices
MaxTest == 2

\* The samples and the classes of the test sets
SampleIds == {"x", "y"}
ClassVals == {0, 1}

\* Svm::Test, the for loop: the number of rows i of svmFeatures, from row i on,
\* for which the prediction differs from svmLabels.at<int>(i, 0).  A row of
\* svmLabels that does not exist is read out of bounds: garbage is what the
\* read yields.
RECURSIVE CountErrors(_, _, _, _, _)
CountErrors(model, features, labs, i, garbage) ==
    IF i > Len(features) THEN 0
    ELSE LET result == model[features[i]]
             label  == IF i <= Len(labs) THEN labs[i] ELSE garbage
         IN  (IF result # label THEN 1 ELSE 0)
             + CountErrors(model, features, labs, i + 1, garbage)

\* The float (100.0f * errors) / svmLabels.rows, kept as a fraction: dividing
\* zero by zero gives NaN and a positive number by zero gives infinity; no
\* exception is raised by a float division.
PercentError(errors, rows) ==
    CASE rows > 0   -> [kind |-> "value", num |-> 100 * errors, den |-> rows]
      [] errors = 0 -> [kind |-> "nan", num |-> 0, den |-> 0]
      [] OTHER      -> [kind |-> "inf", num |-> 100 * errors, den |-> 0]

\* Svm::Test(features, labels) on a trained model (HogSvm::Test extracts one
\* row of features per image and calls it)
SvmTest(model, features, labs, garbage) ==
    PercentError(CountErrors(model, features, labs, 1, garbage), Len(labs))

InitTest ==
    /\ LoaderIdle /\ FrameIdle /\ MainIdle /\ SvmIdle /\ TrainerIdle
    /\ testModel \in [SampleIds -> ClassVals]
    /\ svmFeatures \in SeqsUpTo(SampleIds, MaxTest)
    /\ svmLabels \in SeqsUpTo(ClassVals, MaxTest)
    /\ percentError = [kind |-> "pending", num |-> 0, den |-> 1]

Test ==
    /\ percentError.kind = "pending"
    /\ \E garbage \in ClassVals \cup {-1} :
          percentError' = SvmTest(testModel, svmFeatures, svmLabels, garbage)
    /\ UNCHANGED <<testModel, svmFeatures, svmLabels,
                   loaderVars, frameVars, mainVars, svmVars, trainerVars>>

NextTest == Test

SpecTest == InitTest /\ [][NextTest]_vars

\* The samples of the data set whose predicted class differs from the stored label
Mismatches ==
    {i \in 1..Len(svmFeatures) : testModel[svmFeatures[i]] # svmLabels[i]}

\* C12: for every non-empty data set (one label per sample) Test returns
\* exactly 100 * mismatches / total, a number between 0 and 100; for an empty
\* data set it fails with an error instead of returning a numeric rate.
C12_TestRate ==
    (percentError.kind # "pending" /\ Len(svmLabels) = Len(svmFeatures)) =>
        IF Len(svmFeatures) > 0
        THEN /\ percentError.kind = "value"
             /\ percentError.num * Len(svmFeatures)
                    = 100 * Cardinality(Mismatches) * percentError.den
             /\ 0 <= percentError.num /\ percentError.num <= 100 * percentError.den
        ELSE percentError.kind = "error"

-----------------------------------------------------------------------------
(*             REAL-TIME MAIN (RealtimeDigitClassifier.cpp main)             *)

\* Bound on the number of vidCapture >> frame executions of one run
MaxFrames == 3

\* What a captured, non-empty frame shows inside the region of interest:
\* nothing ("blank": no contour, no Predict call), something the detector
\* rejects ("nonDigit") or something it accepts ("digit").
FrameKinds == {"blank", "nonDigit", "digit"}

\* The keys waitKey(50) can report; "none" is the timeout
Keys == {"none", "Q", "q", "x"}

\* main leaves: return <status>, or the process is killed (std::terminate on an
\* exception nobody catches, or an access violation)
Exit(status, reason) ==
    /\ pc' = "exited"
    /\ exitStatus' = status
    /\ exitReason' = reason

InitMain ==
    /\ LoaderIdle /\ FrameIdle /\ SvmIdle /\ ExtIdle
    /\ pc = "loadClassifier"
    /\ disk \in [classifier : FileKinds, detector : FileKinds]
    /\ classifier = SvmCreate
    /\ detector = SvmCreate
    /\ captureOpened = FALSE
    /\ exitStatus = "running"
    /\ exitReason = "running"
    /\ captured = 0
    /\ emptyFrames = 0
    /\ processCalls = 0

\* if (classifier.Load(classifierFilename) == false) { ...; return 1; }
LoadClassifier ==
    /\ pc = "loadClassifier"
    /\ \E o \in SvmLoad(classifier, disk.classifier) :
          /\ classifier' = o.m_svm
          /\ CASE o.result = "false"  -> Exit("1", "classifierLoadFailed")
               [] o.result = "thrown" -> Exit("killed", "uncaughtException")
               [] o.result = "true"   -> /\ pc' = "loadDetector"
                                         /\ UNCHANGED <<exitStatus, exitReason>>
    /\ UNCHANGED <<disk, detector, captureOpened, captured, emptyFrames, processCalls,
                   loaderVars, frameVars, svmVars, extVars>>

\* if (detector.Load(detectorFilename) == false) { ...; return 1; }
LoadDetector ==
    /\ pc = "loadDetector"
    /\ \E o \in SvmLoad(detector, disk.detector) :
          /\ detector' = o.m_svm
          /\ CASE o.result = "false"  -> Exit("1", "detectorLoadFailed")
               [] o.result = "thrown" -> Exit("killed", "uncaughtException")
               [] o.result = "true"   -> /\ pc' = "openCapture"
                                         /\ UNCHANGED <<exitStatus, exitReason>>
    /\ UNCHANGED <<disk, classifier, captureOpened, captured, emptyFrames, processCalls,
                   loaderVars, frameVars, svmVars, extVars>>

\* VideoCapture vidCapture(0); if (!vidCapture.isOpened()) { ...; return 1; }
\* followed by the window set-up, which has no effect on the model's state.
OpenCapture ==
    /\ pc = "openCapture"
    /\ captureOpened' = TRUE
    /\ \E isOpened \in BOOLEAN :
          IF isOpened
          THEN pc' = "capture" /\ UNCHANGED <<exitStatus, exitReason>>
          ELSE Exit("1", "captureDeviceFailed")
    /\ UNCHANGED <<disk, classifier, detector, captured, emptyFrames, processCalls,
                   loaderVars, frameVars, svmVars, extVars>>

\* An empty frame is skipped and the loop goes on to the next acquisition
AfterCaptureContinue(empty) == IF empty THEN "capture" ELSE "process"

\* vidCapture >> frame; if (frame.empty()) { ...; break; }: where main goes next.
\* The break leaves the while loop, and return 0 follows the loop.
AfterCapture(empty) == IF empty THEN "exited" ELSE "process"

CaptureFrame ==
    /\ pc = "capture"
    /\ captured < MaxFrames
    /\ captured' = captured + 1
    /\ \E empty \in BOOLEAN :
          /\ emptyFrames' = emptyFrames + (IF empty THEN 1 ELSE 0)
          /\ IF AfterCapture(empty) = "exited"
             THEN Exit("0", "captureFailed")
             ELSE pc' = AfterCapture(empty) /\ UNCHANGED <<exitStatus, exitReason>>
    /\ UNCHANGED <<disk, classifier, detector, captureOpened, processCalls,
                   loaderVars, frameVars, svmVars, extVars>>

\* processedFrame = frame; ProcessFrame(classifier, detector, frame, processedFrame);
\* imshow(...); imshow(...).  ProcessFrame calls detector.Predict for each contour
\* and classifier.Predict for each contour the detector accepts; main catches
\* nothing, so an exception or an access violation in a Predict ends the process.
ProcessFrameCall ==
    /\ pc = "process"
    /\ processCalls' = processCalls + 1
    /\ \E kind \in FrameKinds, d \in SvmPredict(detector), c \in SvmPredict(classifier),
          garbagePositive \in BOOLEAN :
          LET detCalled == kind # "blank"
              detect    == IF d = "garbage" THEN garbagePositive ELSE kind = "digit"
              clsCalled == detCalled /\ d \in {"label", "garbage"} /\ detect
              killed    == (detCalled /\ d = "killed") \/ (clsCalled /\ c = "killed")
              thrown    == (detCalled /\ d = "thrown") \/ (clsCalled /\ c = "thrown")
          IN  CASE killed -> Exit("killed", "accessViolation")
                [] thrown -> Exit("killed", "uncaughtException")
                [] OTHER  -> pc' = "waitKey" /\ UNCHANGED <<exitStatus, exitReason>>
    /\ UNCHANGED <<disk, classifier, detector, captureOpened, captured, emptyFrames,
                   loaderVars, frameVars, svmVars, extVars>>

\* c = (char)waitKey(50); if (c == 'Q' || c == 'q') { ...; break; }
WaitKey ==
    /\ pc = "waitKey"
    /\ \E c \in Keys :
          IF c = "Q" \/ c = "q"
          THEN Exit("0", "quit")
          ELSE pc' = "capture" /\ UNCHANGED <<exitStatus, exitReason>>
    /\ UNCHANGED <<disk, classifier, detector, captureOpened, captured, emptyFrames,
                   processCalls, loaderVars, frameVars, svmVars, extVars>>

NextMain ==
    \/ LoadClassifier
    \/ LoadDetector
    \/ OpenCapture
    \/ CaptureFrame
    \/ ProcessFrameCall
    \/ WaitKey

SpecMain == InitMain /\ [][NextMain]_vars

-----------------------------------------------------------------------------
(*                      Claims about the real-time main                      *)

\* Both model files hold a serialized model, so both loads install one
ModelsValid == disk.classifier = "valid" /\ disk.detector = "valid"

\* C7 (as stated): an empty captured frame is recoverable; an acquisition
\* failure alone never terminates the loop.  In a run with both models loaded,
\* main never ends because a frame was empty, and once a frame has been empty
\* main is still in the loop unless the user has quit.
C7_AcquisitionFailureRecoverable ==
    ModelsValid =>
        /\ exitReason # "captureFailed"
        /\ (emptyFrames > 0 /\ pc = "exited") => exitReason = "quit"

\* C7 (amended): an empty captured frame ends the loop: as soon as one has been
\* acquired main has returned 0 for that reason, the empty frame was not passed
\* to ProcessFrame (every earlier frame was), and no frame was acquired after it.
C7_AcquisitionFailureTerminates ==
    emptyFrames > 0 =>
        /\ pc = "exited"
        /\ exitStatus = "0"
        /\ exitReason = "captureFailed"
        /\ emptyFrames = 1
        /\ processCalls = captured - 1

\* C7 witness: two frames were acquired and processed, then an empty one came.
C7_Witness ==
    /\ ModelsValid
    /\ emptyFrames = 1
    /\ captured = 3
    /\ processCalls = 2
    /\ exitReason = "captureFailed"

\* Either model file is missing, or present without being a serialized model
LoadMustFail == disk.classifier # "valid" \/ disk.detector # "valid"

\* C8: if loading either model fails (file missing, or present but not a valid
\* serialized model) main ends with a non-zero status before the capture
\* device is opened, and ProcessFrame is never invoked in such a run.
C8_ModelLoadFailureFatal ==
    LoadMustFail =>
        /\ ~captureOpened
        /\ processCalls = 0
        /\ pc = "exited" => exitStatus # "0"

-----------------------------------------------------------------------------
(*                   THE TRAINER'S MAIN (SvmTrainer.cpp main)                *)

\* Bound on the item count an MNIST file's header declares
MnistItems == 2

\* for (int i = 0; i < 30000; ++i) and for (int i = 0; i < 10000; ++i)
NumTrainNonDigits == 30000
NumTestNonDigits == 10000

\* The four files LoadMnistData reads, in the order it reads them
MnistFiles == {"train-images", "train-labels", "t10k-images", "t10k-labels"}

\* mnist[f] of a file that cannot be opened; otherwise mnist[f] is the number
\* of items its header declares, which is the number of items the loader
\* returns (ReadMnistImageFile, LoadMnistLabelFile)
Unopened == -1

\* nonDigits.train / nonDigits.test when every non-digit image can be read
AllReadable == -1

\* The digit a label file holds (one value stands for the file's labels)
DigitVals == {0, 7}

\* std::vector<Mat>: the number of elements and how many of them are empty Mats
NoImages == [count |-> 0, empty |-> 0]

\* Mat::rows of a labels matrix kept as runs [v, n]
RECURSIVE Rows(_)
Rows(labs) ==
    IF labs = <<>> THEN 0 ELSE Head(labs).n + Rows(Tail(labs))

\* for (i < labels.rows) labels.row(i) = v
SetRows(labs, v) ==
    [i \in 1..Len(labs) |-> [v |-> v, n |-> labs[i].n]]

\* n times labels.push_back(Mat::zeros(1, 1, type))
PushBackZeros(labs, n) ==
    IF n = 0 THEN labs ELSE Append(labs, [v |-> 0, n |-> n])

\* labels.create(numItems, 1, CV_8UC1) filled with the file's labels
LabelMat(numItems, d) ==
    IF numItems = 0 THEN <<>> ELSE <<[v |-> d, n |-> numItems]>>

\* LoadMnistData: the four loads in order, returning false at the first file
\* that cannot be opened; what was loaded before stays in the containers.
LoadMnistDataResult(files, d1, d2) ==
    LET ok1 == files["train-images"] # Unopened
        ok2 == ok1 /\ files["train-labels"] # Unopened
        ok3 == ok2 /\ files["t10k-images"] # Unopened
        ok4 == ok3 /\ files["t10k-labels"] # Unopened
    IN  [result      |-> ok4,
         trainImages |-> IF ok1 THEN [count |-> files["train-images"], empty |-> 0]
                         ELSE NoImages,
         trainLabels |-> IF ok2 THEN LabelMat(files["train-labels"], d1) ELSE <<>>,
         testImages  |-> IF ok3 THEN [count |-> files["t10k-images"], empty |-> 0]
                         ELSE NoImages,
         testLabels  |-> IF ok4 THEN LabelMat(files["t10k-labels"], d2) ELSE <<>>]

\* One of the two loops over the non-digit images (lines 236-252, 262-278):
\* emplace_back(imread(file i)); return false if the new element has no data;
\* threshold; push_back of a zero label.  firstBad is the first i whose file
\* cannot be read.
AppendNonDigits(imgs, labs, total, firstBad) ==
    IF firstBad = AllReadable \/ firstBad >= total
    THEN [ok     |-> TRUE,
          images |-> [count |-> imgs.count + total, empty |-> imgs.empty],
          labels |-> PushBackZeros(labs, total)]
    ELSE [ok     |-> FALSE,
          images |-> [count |-> imgs.count + firstBad + 1, empty |-> imgs.empty + 1],
          labels |-> PushBackZeros(labs, firstBad)]

\* CreateDigitDetectorData(trainImages, trainLabels, testImages, testLabels)
CreateDigitDetectorData(ti, tl, si, sl, bad) ==
    LET a == AppendNonDigits(ti, SetRows(tl, 1), NumTrainNonDigits, bad.train)
        b == AppendNonDigits(si, SetRows(sl, 1), NumTestNonDigits, bad.test)
    IN  IF ~a.ok
        THEN [result |-> FALSE, trainImages |-> a.images, trainLabels |-> a.labels,
              testImages |-> si, testLabels |-> sl]
        ELSE [result |-> b.ok, trainImages |-> a.images, trainLabels |-> a.labels,
              testImages |-> b.images, testLabels |-> b.labels]

NoEntry == [trainImages |-> 0, trainLabels |-> 0, testImages |-> 0, testLabels |-> 0]

InitTrainer ==
    /\ LoaderIdle /\ FrameIdle /\ MainIdle /\ SvmIdle /\ TestIdle
    /\ tpc = "LoadMnistData"
    /\ mnist \in [MnistFiles -> {Unopened} \cup (0..MnistItems)]
    /\ nonDigits \in [train : {AllReadable, 0, NumTrainNonDigits - 1},
                      test  : {AllReadable, 0, NumTestNonDigits - 1}]
    /\ trainImages = NoImages
    /\ trainLabels = <<>>
    /\ testImages = NoImages
    /\ testLabels = <<>>
    /\ entry = NoEntry
    /\ created = "none"
    /\ written = {}
    /\ failed = {}

\* if (LoadMnistData(...) == true) { ... } return 0;
LoadMnistData ==
    /\ tpc = "LoadMnistData"
    /\ \E d1 \in DigitVals, d2 \in DigitVals :
          LET r == LoadMnistDataResult(mnist, d1, d2)
          IN  /\ trainImages' = r.trainImages
              /\ trainLabels' = r.trainLabels
              /\ testImages' = r.testImages
              /\ testLabels' = r.testLabels
              /\ tpc' = IF r.result THEN "TrainDigitSvm" ELSE "done"
              /\ failed' = IF r.result THEN failed ELSE failed \cup {"LoadMnistData"}
    /\ UNCHANGED <<mnist, nonDigits, entry, created, written,
                   loaderVars, frameVars, mainVars, svmVars, testVars>>

\* A Train of a fresh HogSvm inside the try block: the exception the library
\* raises is caught at the end of main, which then returns
TrainStep(here, next) ==
    /\ tpc = here
    /\ \E o \in SvmTrainRows(SvmCreate, trainImages.count, Rows(trainLabels)) :
          /\ tpc' = IF o.result = "true" THEN next ELSE "done"
          /\ failed' = IF o.result = "true" THEN failed ELSE failed \cup {here}
    /\ UNCHANGED <<mnist, nonDigits, trainImages, trainLabels, testImages, testLabels,
                   entry, created, written,
                   loaderVars, frameVars, mainVars, svmVars, testVars>>

\* A Test inside the try block.  Svm::Test reads svmLabels.at<int>(i, 0) for
\* every image i; with fewer labels than images the read is out of bounds and
\* either yields some value or ends the process.  Nothing else makes it fail:
\* the value returned is only printed.
TestStep(here, next) ==
    /\ tpc = here
    /\ \E crash \in {FALSE, testImages.count > Rows(testLabels)} :
          /\ tpc' = IF crash THEN "done" ELSE next
          /\ failed' = IF crash THEN failed \cup {here} ELSE failed
    /\ UNCHANGED <<mnist, nonDigits, trainImages, trainLabels, testImages, testLabels,
                   entry, created, written,
                   loaderVars, frameVars, mainVars, svmVars, testVars>>

\* A Save of the trained model inside the try block, to a name in the working
\* directory, which may or may not be writable
SaveStep(here, next, filename) ==
    /\ tpc = here
    /\ \E writable \in BOOLEAN :
          \E o \in SvmSave("trained", filename, "missing", writable) :
             /\ written' = IF o.content = "valid" THEN written \cup {filename}
                           ELSE written
             /\ tpc' = IF o.result = "thrown" THEN "done" ELSE next
             /\ failed' = IF o.result = "thrown" THEN failed \cup {here} ELSE failed
    /\ UNCHANGED <<mnist, nonDigits, trainImages, trainLabels, testImages, testLabels,
                   entry, created,
                   loaderVars, frameVars, mainVars, svmVars, testVars>>

\* digitSvm.Train(trainImages, trainLabels), line 309
TrainDigitSvm == TrainStep("TrainDigitSvm", "TestDigitSvm")

\* digitSvm.Test(testImages, testLabels), line 314
TestDigitSvm == TestStep("TestDigitSvm", "SaveDigitSvm")

\* digitSvm.Save("mnistSvm.xml"), line 321
SaveDigitSvm == SaveStep("SaveDigitSvm", "CreateDigitDetectorData", "mnistSvm.xml")

\* if (CreateDigitDetectorData(...) == true) { ... }, line 326
CreateDetectorData ==
    /\ tpc = "CreateDigitDetectorData"
    /\ LET r == CreateDigitDetectorData(trainImages, trainLabels,
                                        testImages, testLabels, nonDigits)
       IN  /\ trainImages' = r.trainImages
           /\ trainLabels' = r.trainLabels
           /\ testImages' = r.testImages
           /\ testLabels' = r.testLabels
           /\ created' = IF r.result THEN "true" ELSE "false"
           /\ tpc' = IF r.result THEN "TrainDigitDetector" ELSE "done"
           /\ failed' = IF r.result THEN failed
                        ELSE failed \cup {"CreateDigitDetectorData"}
    /\ entry' = [trainImages |-> trainImages.count, trainLabels |-> Rows(trainLabels),
                 testImages |-> testImages.count, testLabels |-> Rows(testLabels)]
    /\ UNCHANGED <<mnist, nonDigits, written,
                   loaderVars, frameVars, mainVars, svmVars, testVars>>

\* digitDetector.Train(trainImages, trainLabels), line 337
TrainDigitDetector == TrainStep("TrainDigitDetector", "TestDigitDetector")

\* digitDetector.Test(testImages, testLabels), line 342
TestDigitDetector == TestStep("TestDigitDetector", "SaveDigitDetector")

\* digitDetector.Save("svmDigitDetector.xml"), line 349
SaveDigitDetector == SaveStep("SaveDigitDetector", "done", "svmDigitDetector.xml")

NextTrainer ==
    \/ LoadMnistData
    \/ TrainDigitSvm
    \/ TestDigitSvm
    \/ SaveDigitSvm
    \/ CreateDetectorData
    \/ TrainDigitDetector
    \/ TestDigitDetector
    \/ SaveDigitDetector

SpecTrainer == InitTrainer /\ [][NextTrainer]_vars

\* C14: in a run of the trainer in which a data set load, a Train or a Test
\* fails, neither mnistSvm.xml nor svmDigitDetector.xml is written; each model
\* file is written only after its own Train and Test have completed.
C14_NoModelAfterFailure ==
    /\ failed # {} => written = {}
    /\ "mnistSvm.xml" \in written =>
           tpc \notin {"LoadMnistData", "TrainDigitSvm", "TestDigitSvm", "SaveDigitSvm"}
    /\ "svmDigitDetector.xml" \in written => tpc = "done" /\ created = "true"

\* Label count == image count
Parallel(imgs, labs) == imgs = labs

\* The labels after a successful return: the rows present on entry hold 1, the
\* appended rows hold 0
AppendedOk(labs, before, appended) ==
    /\ Rows(labs) = before + appended
    /\ IF before = 0
       THEN labs = <<[v |-> 0, n |-> appended]>>
       ELSE labs = <<[v |-> 1, n |-> before], [v |-> 0, n |-> appended]>>

\* C18: if label count = image count held for both sets on entry, it holds
\* for both sets on every return of CreateDigitDetectorData; on success every
\* label present on entry is 1, every appended label is 0, and exactly 30000
\* train and 10000 test samples were appended.
C18_DetectorDataParallel ==
    (/\ created \in {"true", "false"}
     /\ Parallel(entry.trainImages, entry.trainLabels)
     /\ Parallel(entry.testImages, entry.testLabels)) =>
        /\ Parallel(trainImages.count, Rows(trainLabels))
        /\ Parallel(testImages.count, Rows(testLabels))
        /\ created = "true" =>
              /\ trainImages.count = entry.trainImages + NumTrainNonDigits
              /\ testImages.count = entry.testImages + NumTestNonDigits
              /\ AppendedOk(trainLabels, entry.trainLabels, NumTrainNonDigits)
              /\ AppendedOk(testLabels, entry.testLabels, NumTestNonDigits)

====
